---- MODULE Spec2Model ----
(***************************************************************************)
(* Model of models/preprocessor.py (preprocess): the WhatsApp transcript   *)
(* parser.  Text is a sequence of one-character strings; the regular       *)
(* expressions of the source are interpreted by a small backtracking       *)
(* matcher, strptime templates by a directive interpreter.                 *)
(***************************************************************************)
EXTENDS Integers, Sequences, FiniteSets, TLC

VARIABLES data, origin, pc, detected_pattern, detected_format, detected_name,
          messages, dates, df, successful_parse, diag, result, library, earlier,
          other, app, cache

vars == <<data, origin, pc, detected_pattern, detected_format, detected_name,
          messages, dates, df, successful_parse, diag, result, library, earlier,
          other, app, cache>>

(***************************************************************************)
(* Character classes of Python's re module, restricted to the characters   *)
(* that occur in the transcripts of this model.                            *)
(***************************************************************************)
Digit == {"0", "1", "2", "3", "4", "5", "6", "7", "8", "9"}

Space == {" ", "\n", "\t"}

Dash == {"-", "en-dash", "em-dash"}

\* one regex atom with a quantifier: a character class repeated min..max
\* times (max = -1: unbounded), greedy or lazy
Cls(set, neg, min, max, lazy) ==
    [t |-> "cls", set |-> set, neg |-> neg, min |-> min, max |-> max,
     lazy |-> lazy, n |-> 0]

\* the optional non-capturing group (?: ... )? made of the next n atoms
Opt(n) ==
    [t |-> "opt", set |-> {}, neg |-> FALSE, min |-> 0, max |-> 1,
     lazy |-> FALSE, n |-> n]

Lit(c) == Cls({c}, FALSE, 1, 1, FALSE)

OneOf(set) == Cls(set, FALSE, 1, 1, FALSE)

Rep(set, min, max) == Cls(set, FALSE, min, max, FALSE)

Hit(it, c) == (c \in it.set) # it.neg

\* the least element of a non-empty set of integers
Lowest(S) == CHOOSE j \in S : \A h \in S : j <= h

\* the same, with a value for the empty set
LowestOr(S, none) == IF S = {} THEN none ELSE Lowest(S)

\* how many consecutive characters of s from position i the atom accepts,
\* at most cap
Run(it, s, i, cap) ==
    LET last == IF i + cap - 1 < Len(s) THEN i + cap - 1 ELSE Len(s)
    IN  Lowest({j \in i..last : ~Hit(it, s[j])} \cup {last + 1}) - i

\* atom k takes exactly one character: the engine has no choice there
Single(pat, k) == pat[k].t = "cls" /\ pat[k].min = 1 /\ pat[k].max = 1

\* how many atoms in a row, from atom k on, take exactly one character
Singles(pat, k) ==
    Lowest({m \in k..Len(pat) : ~Single(pat, m)} \cup {Len(pat) + 1}) - k

RECURSIVE MatchAt(_, _, _, _), Greedy(_, _, _, _, _, _), Lazy(_, _, _, _, _, _)
RECURSIVE Literal(_, _, _, _, _), Shortest(_, _, _, _, _)
\* re.match of atoms k.. of pat at position i of s: the position after the
\* match the backtracking engine finds first, 0 when there is none
MatchAt(pat, k, s, i) ==
    IF k > Len(pat) THEN i
    ELSE IF pat[k].t = "opt"
    THEN LET r == MatchAt(pat, k + 1, s, i)
         IN  IF r # 0 THEN r ELSE MatchAt(pat, k + 1 + pat[k].n, s, i)
    ELSE IF Single(pat, k) THEN Literal(pat, k, s, i, Singles(pat, k))
    ELSE LET cap == IF pat[k].max < 0 THEN Len(s) ELSE pat[k].max
             n == Run(pat[k], s, i, cap)
         IN  IF n < pat[k].min THEN 0
             ELSE IF pat[k].lazy THEN Lazy(pat, k, s, i, pat[k].min, n)
             ELSE Greedy(pat, k, s, i, n, pat[k].min)

Greedy(pat, k, s, i, c, min) ==
    IF c < min THEN 0
    ELSE LET r == MatchAt(pat, k + 1, s, i + c)
         IN  IF r # 0 THEN r ELSE Greedy(pat, k, s, i, c - 1, min)

\* the m atoms from atom k on take one character each, then the rest
Literal(pat, k, s, i, m) ==
    IF /\ i + m - 1 <= Len(s)
       /\ \A t \in 0..(m - 1) : Hit(pat[k + t], s[i + t])
    THEN MatchAt(pat, k + m, s, i + m)
    ELSE 0

\* the rest of the pattern after the fewest repetitions among ok
Shortest(pat, k, s, i, ok) ==
    IF ok = {} THEN 0 ELSE MatchAt(pat, k + 1, s, i + Lowest(ok))

\* the shortest repetition count in c..n after which the rest matches
Lazy(pat, k, s, i, c, n) ==
    Shortest(pat, k, s, i, {m \in c..n : MatchAt(pat, k + 1, s, i + m) # 0})

\* where the match of pat that starts at position j of s ends, 0 when
\* there is none (a first atom that must take a character is tried alone
\* first)
EndAt(pat, s, j) ==
    IF pat[1].min > 0 /\ ~Hit(pat[1], s[j]) THEN 0 ELSE MatchAt(pat, 1, s, j)

\* the leftmost of a set of <<start, end>> pairs, <<0, 0>> when empty
Leftmost(ms) ==
    IF ms = {} THEN <<0, 0>>
    ELSE CHOOSE m \in ms : \A n \in ms : m[1] <= n[1]

\* re.search from position i: <<start, end>> of the leftmost match
SearchFrom(pat, s, i) ==
    Leftmost({m \in {<<j, EndAt(pat, s, j)>> : j \in i..Len(s)} : m[2] # 0})

ReSearch(pat, s) == SearchFrom(pat, s, 1)[1] # 0

RECURSIVE FindIter(_, _, _)
\* re.finditer: the non-overlapping matches, left to right
FindIter(pat, s, i) ==
    LET m == SearchFrom(pat, s, i)
    IN  IF m[1] = 0 THEN <<>>
        ELSE <<m>> \o FindIter(pat, s, IF m[2] > m[1] THEN m[2] ELSE m[2] + 1)

ReFindall(pat, s) ==
    LET ms == FindIter(pat, s, 1)
    IN  [k \in 1..Len(ms) |-> SubSeq(s, ms[k][1], ms[k][2] - 1)]

\* ReSplit whose pieces begin one character late
ReSplitSkip(pat, s) ==
    LET ms == FindIter(pat, s, 1)
        n == Len(ms)
    IN  [k \in 1..(n + 1) |->
            SubSeq(s, IF k = 1 THEN 1 ELSE ms[k - 1][2] + 1,
                      IF k = n + 1 THEN Len(s) ELSE ms[k][1] - 1)]

\* re.split for a pattern without capturing group
ReSplit(pat, s) ==
    LET ms == FindIter(pat, s, 1)
        n == Len(ms)
    IN  [k \in 1..(n + 1) |->
            SubSeq(s, IF k = 1 THEN 1 ELSE ms[k - 1][2],
                      IF k = n + 1 THEN Len(s) ELSE ms[k][1] - 1)]

\* re.split for a pattern whose single capturing group is the whole match
\* but its last `tail` characters: the pieces and the groups alternate
ReSplitGroup(pat, tail, s) ==
    LET ms == FindIter(pat, s, 1)
        n == Len(ms)
    IN  [k \in 1..(2 * n + 1) |->
            IF k % 2 = 1
            THEN LET j == (k + 1) \div 2
                 IN  SubSeq(s, IF j = 1 THEN 1 ELSE ms[j - 1][2],
                               IF j = n + 1 THEN Len(s) ELSE ms[j][1] - 1)
            ELSE LET j == k \div 2
                 IN  SubSeq(s, ms[j][1], ms[j][2] - 1 - tail)]

(***************************************************************************)
(* The timestamp patterns of SECTION 2.                                    *)
(***************************************************************************)
pattern_12h_1 ==
    << Rep(Digit, 1, 2), Lit("/"), Rep(Digit, 1, 2), Lit("/"), Rep(Digit, 2, 4),
       Lit(","), OneOf(Space), Rep(Digit, 1, 2), Lit(":"), Rep(Digit, 2, 2),
       OneOf(Space), OneOf({"A", "P"}), Lit("M"), OneOf(Space), Lit("-"),
       OneOf(Space) >>

pattern_12h_2 ==
    << Rep(Digit, 1, 2), Lit("/"), Rep(Digit, 1, 2), Lit("/"), Rep(Digit, 2, 4),
       OneOf(Space), Rep(Digit, 1, 2), Lit(":"), Rep(Digit, 2, 2),
       OneOf(Space), OneOf({"A", "P"}), Lit("M"), OneOf(Space), Lit("-"),
       OneOf(Space) >>

pattern_24h_1 ==
    << Rep(Digit, 1, 2), Lit("/"), Rep(Digit, 1, 2), Lit("/"), Rep(Digit, 2, 4),
       Lit(","), OneOf(Space), Rep(Digit, 1, 2), Lit(":"), Rep(Digit, 2, 2),
       OneOf(Space), Lit("-"), OneOf(Space) >>

pattern_24h_2 ==
    << Rep(Digit, 1, 2), Lit("/"), Rep(Digit, 1, 2), Lit("/"), Rep(Digit, 2, 4),
       OneOf(Space), Rep(Digit, 1, 2), Lit(":"), Rep(Digit, 2, 2),
       OneOf(Space), Lit("-"), OneOf(Space) >>

pattern_24h_3 ==
    << Lit("["), Rep(Digit, 1, 2), Lit("/"), Rep(Digit, 1, 2), Lit("/"),
       Rep(Digit, 2, 4), Lit(","), OneOf(Space), Rep(Digit, 1, 2), Lit(":"),
       Rep(Digit, 2, 2), Lit(":"), Rep(Digit, 2, 2), Lit("]"), OneOf(Space) >>

pattern_24h_4 ==
    << Rep(Digit, 1, 2), Lit("/"), Rep(Digit, 1, 2), Lit("/"), Rep(Digit, 4, 4),
       Lit(","), OneOf(Space), Rep(Digit, 1, 2), Lit(":"), Rep(Digit, 2, 2),
       OneOf(Space), Lit("-"), OneOf(Space) >>

pattern_iso ==
    << Rep(Digit, 4, 4), Lit("-"), Rep(Digit, 2, 2), Lit("-"), Rep(Digit, 2, 2),
       OneOf(Space), Rep(Digit, 1, 2), Lit(":"), Rep(Digit, 2, 2), Lit(":"),
       Rep(Digit, 2, 2), OneOf(Space), Lit("-"), OneOf(Space) >>

pattern_euro ==
    << Rep(Digit, 1, 2), Lit("."), Rep(Digit, 1, 2), Lit("."), Rep(Digit, 2, 4),
       Lit(","), OneOf(Space), Rep(Digit, 1, 2), Lit(":"), Rep(Digit, 2, 2),
       OneOf(Space), Lit("-"), OneOf(Space) >>

\* the permissive catch-all of the fallback extraction
generic_pattern ==
    << Rep({"[", "("}, 0, 1),
       Rep(Digit, 1, 4), OneOf({"/", ".", "-"}),
       Rep(Digit, 1, 4), OneOf({"/", ".", "-"}),
       Rep(Digit, 1, 4), Rep({","} \cup Space, 1, -1),
       Rep(Digit, 1, 2), Lit(":"), Rep(Digit, 1, 2),
       Opt(2), Lit(":"), Rep(Digit, 1, 2),
       Opt(3), Rep(Space, 0, -1), OneOf({"a", "A", "p", "P"}),
               OneOf({"m", "M"}),
       Rep({"]", ")"}, 0, 1), Rep(Space, 0, -1),
       Cls({"\n"}, TRUE, 1, -1, FALSE) >>

\* ([\w\W]+?):\s
user_pattern ==
    << Cls({}, TRUE, 1, -1, TRUE), Lit(":"), OneOf(Space) >>

\* ([\w\W]+?)\s[-–—]\s
alt_user_pattern ==
    << Cls({}, TRUE, 1, -1, TRUE), OneOf(Space), OneOf(Dash), OneOf(Space) >>

\* ^\+\d+\s
phone_prefix ==
    << Lit("+"), Rep(Digit, 1, -1), OneOf(Space) >>

(***************************************************************************)
(* The grammar catalog: (pattern, date template, name).  A template is a   *)
(* sequence of strptime directives and literal characters; " " stands      *)
(* for the \s+ strptime puts in place of white space.                      *)
(***************************************************************************)
Tpl12(a, b, comma) ==
    <<a, "/", b, "/", "%y">> \o (IF comma THEN <<",">> ELSE <<>>) \o
    <<" ", "%I", ":", "%M", " ", "%p", " ", "-", " ">>

Tpl24(a, b, y, comma) ==
    <<a, "/", b, "/", y>> \o (IF comma THEN <<",">> ELSE <<>>) \o
    <<" ", "%H", ":", "%M", " ", "-", " ">>

G(p, f, nm) == [pattern |-> p, date_format |-> f, pattern_name |-> nm]

date_patterns ==
    << G(pattern_12h_1, Tpl12("%m", "%d", TRUE), "US 12h comma"),
       G(pattern_12h_1, Tpl12("%d", "%m", TRUE), "UK 12h comma"),
       G(pattern_12h_2, Tpl12("%m", "%d", FALSE), "US 12h no comma"),
       G(pattern_12h_2, Tpl12("%d", "%m", FALSE), "UK 12h no comma"),
       G(pattern_24h_1, Tpl24("%m", "%d", "%y", TRUE), "US 24h comma"),
       G(pattern_24h_1, Tpl24("%d", "%m", "%y", TRUE), "UK 24h comma"),
       G(pattern_24h_1, Tpl24("%d", "%m", "%Y", TRUE), "UK 24h comma full year"),
       G(pattern_24h_2, Tpl24("%m", "%d", "%y", FALSE), "US 24h no comma"),
       G(pattern_24h_2, Tpl24("%d", "%m", "%y", FALSE), "UK 24h no comma"),
       G(pattern_24h_3,
         <<"[", "%m", "/", "%d", "/", "%y", ",", " ", "%H", ":", "%M", ":",
           "%S", "]", " ">>, "Bracketed with seconds"),
       G(pattern_24h_4, Tpl24("%d", "%m", "%Y", TRUE), "DD/MM/YYYY format"),
       G(pattern_iso,
         <<"%Y", "-", "%m", "-", "%d", " ", "%H", ":", "%M", ":", "%S", " ",
           "-", " ">>, "ISO format"),
       G(pattern_euro,
         <<"%d", ".", "%m", ".", "%y", ",", " ", "%H", ":", "%M", " ", "-",
           " ">>, "European format") >>

(***************************************************************************)
(* pandas.to_datetime(column, format=...): strptime over the whole column. *)
(***************************************************************************)
DigitChar == <<"0", "1", "2", "3", "4", "5", "6", "7", "8", "9">>

DigitVal(c) == CHOOSE v \in 0..9 : DigitChar[v + 1] = c

RECURSIVE NumVal(_, _, _)
\* the number written by the n digits of s that start at position i
NumVal(s, i, n) ==
    IF n = 0 THEN 0 ELSE NumVal(s, i, n - 1) * 10 + DigitVal(s[i + n - 1])

NaT == [ok |-> FALSE, year |-> 0, month |-> 0, day |-> 0, hour |-> 0,
        minute |-> 0, second |-> 0]

\* the fields a directive reads: <<shortest, longest, least, greatest>>
Directive(d) ==
    CASE d = "%m" -> <<1, 2, 1, 12>>
      [] d = "%d" -> <<1, 2, 1, 31>>
      [] d = "%H" -> <<1, 2, 0, 23>>
      [] d = "%I" -> <<1, 2, 1, 12>>
      [] d = "%M" -> <<1, 2, 0, 59>>
      [] d = "%S" -> <<1, 2, 0, 59>>
      [] d = "%y" -> <<2, 2, 0, 99>>
      [] d = "%Y" -> <<4, 4, 0, 9999>>

NumDirectives == {"%m", "%d", "%H", "%I", "%M", "%S", "%y", "%Y"}

IsLeap(y) == (y % 4 = 0 /\ y % 100 # 0) \/ y % 400 = 0

DaysIn(y, m) ==
    IF m = 2 THEN (IF IsLeap(y) THEN 29 ELSE 28)
    ELSE IF m \in {4, 6, 9, 11} THEN 30 ELSE 31

NoFields == [x \in {} |-> 0]

RECURSIVE Scan(_, _, _, _, _)
\* match template atoms k.. against s from position i, collecting the
\* fields read so far in f; the result is the field map, or NoFields with
\* the key "fail" when the text does not fit the template exactly
Scan(fmt, k, s, i, f) ==
    IF k > Len(fmt)
    THEN (IF i = Len(s) + 1 THEN f ELSE ("fail" :> 1))
    ELSE LET d == fmt[k] IN
         IF d \in NumDirectives
         THEN LET spec == Directive(d)
                  n == Run(Rep(Digit, 1, 1), s, i, spec[2])
                  v == NumVal(s, i, n)
              IN  IF n < spec[1] \/ v < spec[3] \/ v > spec[4]
                  THEN ("fail" :> 1)
                  ELSE Scan(fmt, k + 1, s, i + n, f @@ (d :> v))
         ELSE IF d = "%p"
         THEN IF i + 1 <= Len(s) /\ s[i] \in {"A", "a", "P", "p"}
                 /\ s[i + 1] \in {"M", "m"}
              THEN Scan(fmt, k + 1, s, i + 2,
                        f @@ (d :> IF s[i] \in {"P", "p"} THEN 1 ELSE 0))
              ELSE ("fail" :> 1)
         ELSE IF d = " "
         THEN LET n == Run(Rep(Space, 1, 1), s, i, Len(s))
              IN  IF n = 0 THEN ("fail" :> 1)
                  ELSE Scan(fmt, k + 1, s, i + n, f)
         ELSE IF i <= Len(s) /\ s[i] = d
              THEN Scan(fmt, k + 1, s, i + 1, f)
              ELSE ("fail" :> 1)

Has(f, d) == d \in DOMAIN f

\* strptime(s, fmt): the timestamp, NaT when s does not fit
Strptime(fmt, s) ==
    LET f == Scan(fmt, 1, s, 1, NoFields) IN
    IF Has(f, "fail") THEN NaT
    ELSE LET y == IF Has(f, "%Y") THEN f["%Y"]
                  ELSE IF f["%y"] < 69 THEN 2000 + f["%y"] ELSE 1900 + f["%y"]
             h == IF Has(f, "%I")
                  THEN (f["%I"] % 12) + (IF f["%p"] = 1 THEN 12 ELSE 0)
                  ELSE f["%H"]
         IN  IF y < 1 \/ f["%d"] > DaysIn(y, f["%m"]) THEN NaT
             ELSE [ok |-> TRUE, year |-> y, month |-> f["%m"],
                   day |-> f["%d"], hour |-> h, minute |-> f["%M"],
                   second |-> IF Has(f, "%S") THEN f["%S"] ELSE 0]

\* ColumnParses satisfied by a single element
ColumnParsesAny(col, fmt) == \E k \in 1..Len(col) : Strptime(fmt, col[k]).ok

\* to_datetime raises unless every element of the column parses
ColumnParses(col, fmt) == \A k \in 1..Len(col) : Strptime(fmt, col[k]).ok

RECURSIVE FormatLoop(_, _)
\* the loop of SECTION 5 from catalog entry g on: index of the first
\* template that parses the whole column, 0 when none does
FormatLoop(col, g) ==
    IF g > Len(date_patterns) THEN 0
    ELSE IF ColumnParses(col, date_patterns[g].date_format) THEN g
    ELSE FormatLoop(col, g + 1)

FirstFormat(col) == FormatLoop(col, 1)

(***************************************************************************)
(* String helpers: str.split, str.join, str.strip.                         *)
(***************************************************************************)
\* sep occurs in s at position j
OccursAt(s, sep, j) == \A k \in 1..Len(sep) : s[j + k - 1] = sep[k]

\* str.find(sep, i): first position at or after i where sep occurs, else 0
Find(s, sep, i) ==
    LowestOr({j \in i..(Len(s) - Len(sep) + 1) : OccursAt(s, sep, j)}, 0)

RECURSIVE StrSplit(_, _, _)
\* str.split(sep, maxsplit); maxsplit = -1 splits everywhere
StrSplit(s, sep, maxsplit) ==
    LET j == Find(s, sep, 1)
    IN  IF maxsplit = 0 \/ j = 0 THEN <<s>>
        ELSE <<SubSeq(s, 1, j - 1)>> \o
             StrSplit(SubSeq(s, j + Len(sep), Len(s)), sep, maxsplit - 1)

RECURSIVE StrJoin(_, _)
StrJoin(sep, parts) ==
    IF parts = <<>> THEN <<>>
    ELSE IF Len(parts) = 1 THEN parts[1]
    ELSE parts[1] \o sep \o StrJoin(sep, Tail(parts))

RECURSIVE LStrip(_), RStrip(_)
LStrip(s) == IF s # <<>> /\ s[1] \in Space THEN LStrip(Tail(s)) ELSE s

RStrip(s) ==
    IF s # <<>> /\ s[Len(s)] \in Space THEN RStrip(SubSeq(s, 1, Len(s) - 1))
    ELSE s

StrStrip(s) == LStrip(RStrip(s))

\* parts[:n]
Take(parts, n) == SubSeq(parts, 1, IF Len(parts) < n THEN Len(parts) ELSE n)

\* parts[n:]
Drop(parts, n) == SubSeq(parts, n + 1, Len(parts))

group_notification ==
    <<"g", "r", "o", "u", "p", "_", "n", "o", "t", "i", "f", "i", "c", "a",
      "t", "i", "o", "n">>

(***************************************************************************)
(* The stages of preprocess as operators.                                  *)
(***************************************************************************)
SampleLines == 10

NL == <<"\n">>

\* sample_data without the [:10]
sample_data_all(d) == StrJoin(NL, StrSplit(d, NL, -1))

\* "\n".join(data.split("\n")[:10])
sample_data(d) == StrJoin(NL, Take(StrSplit(d, NL, -1), SampleLines))

RECURSIVE DetectLoop(_, _)
\* the detection loop from catalog entry g on: index of the first entry
\* whose pattern is found in the sample, 0 when the loop ends without break
DetectLoop(sample, g) ==
    IF g > Len(date_patterns) THEN 0
    ELSE IF ReSearch(date_patterns[g].pattern, sample) THEN g
    ELSE DetectLoop(sample, g + 1)

DetectIndex(sample) == DetectLoop(sample, 1)

\* SplitMessages without the [1:]
SplitMessagesAll(pat, d) == ReSplit(pat, d)

\* SplitMessages onto a list that outlives the invocation
SplitMessagesKept(pat, d) == messages \o Drop(ReSplit(pat, d), 1)

\* re.split(detected_pattern, data)[1:]
SplitMessages(pat, d) == Drop(ReSplit(pat, d), 1)

DashSep == <<" ", "-", " ">>

RECURSIVE BlockPairsKeepAll(_)
\* BlockPairs without the test of len(parts)
BlockPairsKeepAll(blocks) ==
    IF blocks = <<>> THEN <<>>
    ELSE LET parts == StrSplit(blocks[1], DashSep, 1)
         IN  << <<parts[1] \o DashSep,
                  IF Len(parts) = 2 THEN parts[2] ELSE <<>> >> >>
             \o BlockPairsKeepAll(Tail(blocks))

RECURSIVE BlockPairs(_)
\* the loop over message_blocks: <<date, message>> of every block that
\* splits in two at its first " - "
BlockPairs(blocks) ==
    IF blocks = <<>> THEN <<>>
    ELSE LET parts == StrSplit(blocks[1], DashSep, 1)
         IN  (IF Len(parts) = 2 THEN << <<parts[1] \o DashSep, parts[2]>> >>
              ELSE <<>>) \o BlockPairs(Tail(blocks))

\* pd.DataFrame({'user_message': messages, 'message_date': dates}); idx is
\* the row label pandas keeps through dropna
CreateFrame(msgs, dts) ==
    [k \in 1..Len(msgs) |->
        [idx |-> k, user_message |-> msgs[k], message_date |-> dts[k]]]

Column(frame, name) == [k \in 1..Len(frame) |-> frame[k][name]]

WithDate(row, d) ==
    [idx |-> row.idx, user_message |-> row.user_message,
     message_date |-> row.message_date, date |-> d]

\* DropNaDate that drops nothing
DropNaDateNone(frame) == frame

\* df.dropna(subset=['date'])
DropNaDate(frame) == SelectSeq(frame, LAMBDA r : r.date.ok)

\* a timestamp the flexible interpreter makes of a fragment that no
\* catalog template reads
FlexDate == [ok |-> TRUE, year |-> 2001, month |-> 2, day |-> 3, hour |-> 4,
             minute |-> 5, second |-> 6]

CatalogReadings(s) ==
    {Strptime(date_patterns[g].date_format, s) : g \in 1..Len(date_patterns)}
        \ {NaT}

\* what to_datetime(..., errors='coerce') without a format can return for
\* one fragment: the library decides, so every reading is possible
FlexReadings(s) ==
    {NaT} \cup (IF CatalogReadings(s) = {} THEN {FlexDate} ELSE CatalogReadings(s))

RECURSIVE FlexColumns(_)
\* the columns the flexible interpreter can return for a column of fragments
FlexColumns(col) ==
    IF col = <<>> THEN {<<>>}
    ELSE {<<r>> \o rest : r \in FlexReadings(col[1]),
                          rest \in FlexColumns(Tail(col))}

\* SplitUser that records a service message untrimmed
SplitUserNoStrip(message) ==
    LET entry == ReSplitGroup(user_pattern, 2, message)
        alt_entry == ReSplitGroup(alt_user_pattern, 3, message)
    IN  IF Drop(entry, 1) # <<>>
        THEN <<entry[2], StrJoin(<<" ">>, Drop(entry, 2))>>
        ELSE IF Len(alt_entry) > 1
        THEN <<alt_entry[2], StrJoin(<<" ">>, Drop(alt_entry, 2))>>
        ELSE <<group_notification, message>>

\* one message of SECTION 6: <<user, message>>
SplitUser(message) ==
    LET entry == ReSplitGroup(user_pattern, 2, message)
        alt_entry == ReSplitGroup(alt_user_pattern, 3, message)
    IN  IF Drop(entry, 1) # <<>>
        THEN <<entry[2], StrJoin(<<" ">>, Drop(entry, 2))>>
        ELSE IF Len(alt_entry) > 1
        THEN <<alt_entry[2], StrJoin(<<" ">>, Drop(alt_entry, 2))>>
        ELSE <<group_notification, StrStrip(message)>>

\* re.sub(r'^\+\d+\s', '', x)
StripPhone(x) ==
    LET e == MatchAt(phone_prefix, 1, x, 1)
    IN  IF e = 0 THEN x ELSE SubSeq(x, e, Len(x))

\* Period with the morning test one hour short
PeriodShortMorning(hour) ==
    IF hour = 11 THEN ToString(hour) \o "AM-12PM"
    ELSE IF hour = 23 THEN ToString(hour - 12) \o "PM-12AM"
    ELSE IF hour = 0 THEN "12AM-1AM"
    ELSE IF hour = 12 THEN "12PM-1PM"
    ELSE IF hour < 10 THEN ToString(hour) \o "AM-" \o ToString(hour + 1) \o "AM"
    ELSE ToString(hour - 12) \o "PM-" \o ToString(hour - 11) \o "PM"

\* Period without the branch for midnight
PeriodNoMidnight(hour) ==
    IF hour = 11 THEN ToString(hour) \o "AM-12PM"
    ELSE IF hour = 23 THEN ToString(hour - 12) \o "PM-12AM"
    ELSE IF hour = 12 THEN "12PM-1PM"
    ELSE IF hour < 11 THEN ToString(hour) \o "AM-" \o ToString(hour + 1) \o "AM"
    ELSE ToString(hour - 12) \o "PM-" \o ToString(hour - 11) \o "PM"

\* the if/elif chain of SECTION 9
Period(hour) ==
    IF hour = 11 THEN ToString(hour) \o "AM-12PM"
    ELSE IF hour = 23 THEN ToString(hour - 12) \o "PM-12AM"
    ELSE IF hour = 0 THEN "12AM-1AM"
    ELSE IF hour = 12 THEN "12PM-1PM"
    ELSE IF hour < 11 THEN ToString(hour) \o "AM-" \o ToString(hour + 1) \o "AM"
    ELSE ToString(hour - 12) \o "PM-" \o ToString(hour - 11) \o "PM"

\* the missing value (None, NaN): no text equals it, the empty text included
Null == <<"<NA>">>

\* SECTIONS 6-7: the user and message columns replace the raw ones
WithUser(row) ==
    LET um == SplitUser(row.user_message)
    IN  [idx |-> row.idx, date |-> row.date, user |-> StripPhone(um[1]),
         message |-> um[2]]

\* SECTIONS 8-9: the derived time columns
WithTime(row) ==
    [idx |-> row.idx, date |-> row.date, user |-> row.user,
     message |-> row.message, year |-> row.date.year,
     month_num |-> row.date.month, day |-> row.date.day,
     hour |-> row.date.hour, minute |-> row.date.minute,
     am_pm |-> IF row.date.hour < 12 THEN "AM" ELSE "PM",
     period |-> Period(row.date.hour)]

DayNumber(d) == d.day + 31 * (d.month + 12 * d.year)

SecondOfDay(d) == d.second + 60 * (d.minute + 60 * d.hour)

\* timestamp a is before timestamp b
Before(a, b) ==
    \/ DayNumber(a) < DayNumber(b)
    \/ DayNumber(a) = DayNumber(b) /\ SecondOfDay(a) < SecondOfDay(b)

RECURSIVE InsertByDate(_, _)
InsertByDate(r, sorted) ==
    IF sorted = <<>> THEN <<r>>
    ELSE IF Before(r.date, sorted[1].date) THEN <<r>> \o sorted
    ELSE <<sorted[1]>> \o InsertByDate(r, Tail(sorted))

RECURSIVE SortByDate(_)
SortByDate(frame) ==
    IF frame = <<>> THEN <<>>
    ELSE InsertByDate(frame[Len(frame)],
                      SortByDate(SubSeq(frame, 1, Len(frame) - 1)))

\* DropNa followed by a sort on the timestamp
DropNaSorted(frame) ==
    SortByDate(SelectSeq(frame, LAMBDA r : r.date.ok /\ r.message # <<"<NA>">>))

\* df.dropna(subset=['date', 'message'])
DropNa(frame) == SelectSeq(frame, LAMBDA r : r.date.ok /\ r.message # Null)

\* MinRecords accepting a single record
MinRecordsOne == 2 - 1

MinRecords == 2

(***************************************************************************)
(* Diagnostics (streamlit calls) and results.                              *)
(***************************************************************************)
Msg(level, text) == [level |-> level, text |-> text]

\* the warning reported with st.error
WarnAsError == Msg("error", "Chat format not automatically recognized")

WarnUnrecognized == Msg("warning", "Chat format not automatically recognized")

SuccessUploaded == Msg("success", "Chat uploaded successfully!")

ErrNoMessages == Msg("error", "No messages could be extracted")

ErrFlexible == Msg("error", "Could not parse dates with any known format")

\* the date failure reported with st.warning
ErrDatesAsWarning == Msg("warning", "Failed to parse message dates")

ErrDates == Msg("error", "Failed to parse message dates")

ErrTooFew == Msg("error", "Too few valid messages found after processing")

ErrProcessing == Msg("error", "Error processing chat")

ErrDetailed == Msg("error", "Detailed error")

Pending == [kind |-> "pending", rows |-> <<>>]

None == [kind |-> "None", rows |-> <<>>]

DataFrame(rows) == [kind |-> "DataFrame", rows |-> rows]

\* an exception that leaves preprocess: the caller gets no value at all
Propagated == [kind |-> "exception", rows |-> <<>>]

\* arguments that are no str: None and a bytes object, on which
\* data.split("\n") raises AttributeError and TypeError
NonText == { <<"<None>">>, <<"<bytes>">> }

(***************************************************************************)
(* preprocess as a state machine: one action per section of the source.    *)
(***************************************************************************)
Return(r) == /\ result' = r
             /\ pc' = "done"

\* Raise without the except clause
RaisePropagate ==
    /\ diag' = diag
    /\ Return(Propagated)

\* the except clause of the function: two error reports, then None
Raise ==
    /\ diag' = diag \o <<ErrProcessing, ErrDetailed>>
    /\ Return(None)

\* SECTION 2: format detection; line 33 raises on an argument without a
\* str.split
Detect ==
    /\ pc = "detect"
    /\ IF data \in NonText
       THEN /\ Raise
            /\ UNCHANGED <<detected_pattern, detected_format, detected_name>>
       ELSE LET g == DetectIndex(sample_data(data)) IN
            /\ IF g = 0
               THEN /\ diag' = Append(diag, WarnUnrecognized)
                    /\ detected_pattern' = pattern_12h_1
                    /\ detected_format' = Tpl12("%m", "%d", TRUE)
                    /\ detected_name' = "Generic fallback"
               ELSE /\ diag' = Append(diag, SuccessUploaded)
                    /\ detected_pattern' = date_patterns[g].pattern
                    /\ detected_format' = date_patterns[g].date_format
                    /\ detected_name' = date_patterns[g].pattern_name
            /\ pc' = "extract"
            /\ UNCHANGED result
    /\ UNCHANGED <<other, app, cache>>
    /\ UNCHANGED <<data, origin, earlier, library, messages, dates, df,
                   successful_parse>>

\* SECTION 3: message extraction
Extract ==
    /\ pc = "extract"
    /\ LET msgs == SplitMessages(detected_pattern, data)
           dts == ReFindall(detected_pattern, data)
       IN  IF msgs = <<>> \/ dts = <<>>
           THEN LET message_blocks == ReFindall(generic_pattern, data)
                    pairs == BlockPairs(message_blocks)
                IN  /\ diag' = Append(diag, ErrNoMessages)
                    /\ IF message_blocks = <<>>
                       THEN /\ Return(None)
                            /\ UNCHANGED <<messages, dates>>
                       ELSE /\ dates' = [k \in 1..Len(pairs) |-> pairs[k][1]]
                            /\ messages' = [k \in 1..Len(pairs) |-> pairs[k][2]]
                            /\ pc' = "frame"
                            /\ UNCHANGED result
           ELSE /\ messages' = msgs
                /\ dates' = dts
                /\ pc' = "frame"
                /\ UNCHANGED <<diag, result>>
    /\ UNCHANGED <<other, app, cache>>
    /\ UNCHANGED <<data, origin, earlier, library, detected_pattern, detected_format,
                   detected_name, df, successful_parse>>

\* SECTION 4: the DataFrame constructor raises on columns of unequal length
Frame ==
    /\ pc = "frame"
    /\ IF Len(messages) # Len(dates)
       THEN /\ Raise
            /\ UNCHANGED df
       ELSE /\ df' = CreateFrame(messages, dates)
            /\ pc' = "parse_dates"
            /\ UNCHANGED <<diag, result>>
    /\ UNCHANGED <<other, app, cache>>
    /\ UNCHANGED <<data, origin, earlier, library, detected_pattern, detected_format,
                   detected_name, messages, dates, successful_parse>>

\* the test after the parse attempts (lines 149-151)
AfterParse(frame, ok) ==
    /\ df' = frame
    /\ successful_parse' = ok
    /\ IF ~ok \/ Len(frame) = 0
       THEN /\ diag' = Append(diag, ErrDates)
            /\ Return(None)
       ELSE /\ pc' = "users"
            /\ UNCHANGED <<diag, result>>

\* what the flexible interpreter was last asked and what it answered
NotAsked == {}

\* the answers the library has given for the column col
Asked(col) == {a \in library : a.col = col}

\* to_datetime without a format is a function of its argument: which
\* function is the library's choice (a column of readings, or an
\* exception), but the same column gets the same answer again
Answers(col) ==
    IF Asked(col) # {} THEN Asked(col)
    ELSE {[col |-> col, raised |-> FALSE, read |-> r] : r \in FlexColumns(col)}
         \cup {[col |-> col, raised |-> TRUE, read |-> <<>>]}

\* SECTION 5 up to line 140: the catalog templates in order on the whole
\* column, then the call of the flexible interpreter
ParseDates ==
    /\ pc = "parse_dates"
    /\ LET col == Column(df, "message_date")
           g == FirstFormat(col)
       IN  IF g # 0
           THEN /\ AfterParse([k \in 1..Len(df) |->
                                 WithDate(df[k],
                                          Strptime(date_patterns[g].date_format,
                                                   col[k]))], TRUE)
                /\ UNCHANGED library
           ELSE \E a \in Answers(col) :
                   /\ library' = library \cup {a}
                   /\ successful_parse' = FALSE
                   /\ IF a.raised
                      THEN /\ diag' = Append(diag, ErrFlexible)
                           /\ Return(None)
                           /\ UNCHANGED df
                      ELSE /\ df' = [k \in 1..Len(df) |->
                                       WithDate(df[k], a.read[k])]
                           /\ pc' = "dropna_date"
                           /\ UNCHANGED <<diag, result>>
    /\ UNCHANGED <<other, app, cache>>
    /\ UNCHANGED <<data, origin, earlier, detected_pattern, detected_format,
                   detected_name, messages, dates>>

\* lines 142-151: the rows without a timestamp are dropped; the parse
\* counts as successful when a row is left
DropUnparsed ==
    /\ pc = "dropna_date"
    /\ AfterParse(DropNaDate(df), Len(DropNaDate(df)) > 0)
    /\ UNCHANGED <<other, app, cache>>
    /\ UNCHANGED <<data, origin, earlier, library, detected_pattern,
                   detected_format, detected_name, messages, dates>>

\* SECTIONS 6-7: user and message extraction
ExtractUsers ==
    /\ pc = "users"
    /\ df' = [k \in 1..Len(df) |-> WithUser(df[k])]
    /\ pc' = "time"
    /\ UNCHANGED <<other, app, cache>>
    /\ UNCHANGED <<data, origin, earlier, library, detected_pattern, detected_format,
                   detected_name, messages, dates, successful_parse, diag,
                   result>>

\* SECTIONS 8-9: time components and period
TimeComponents ==
    /\ pc = "time"
    /\ df' = [k \in 1..Len(df) |-> WithTime(df[k])]
    /\ pc' = "validate"
    /\ UNCHANGED <<other, app, cache>>
    /\ UNCHANGED <<data, origin, earlier, library, detected_pattern, detected_format,
                   detected_name, messages, dates, successful_parse, diag,
                   result>>

\* SECTION 10: validation
Validate ==
    /\ pc = "validate"
    /\ df' = DropNa(df)
    /\ IF Len(DropNa(df)) < MinRecords
       THEN /\ diag' = Append(diag, ErrTooFew)
            /\ Return(None)
       ELSE /\ Return(DataFrame(DropNa(df)))
            /\ UNCHANGED diag
    /\ UNCHANGED <<other, app, cache>>
    /\ UNCHANGED <<data, origin, earlier, library, detected_pattern, detected_format,
                   detected_name, messages, dates, successful_parse>>

\* number of line breaks of d
LineBreaks(d) == Len(SelectSeq(d, LAMBDA c : c = "\n"))

MaxRepeatLines == 2

\* the earlier invocations that were made on the text d
CallsOn(d) == SelectSeq(earlier, LAMBDA c : c.data = d)

\* the caller invokes preprocess once more: on the same text, or, after a
\* single invocation, on the text d of another upload.  Nothing of an
\* invocation is handed to the next: the variables keep their old values
\* only to show that each is assigned before it is read.  The diagnostics
\* shown are those of the running invocation.
Reinvoke(d) ==
    /\ pc = "done"
    /\ LineBreaks(data) <= MaxRepeatLines
    /\ \/ d = data /\ CallsOn(data) = <<>>
       \/ d # data /\ earlier = <<>>
    /\ earlier' = Append(earlier, [data |-> data, result |-> result])
    /\ data' = d
    /\ pc' = "detect"
    /\ result' = Pending
    /\ diag' = <<>>
    /\ UNCHANGED <<other, app, cache>>
    /\ UNCHANGED <<origin, library, detected_pattern, detected_format,
                   detected_name, messages, dates, df, successful_parse>>

(***************************************************************************)
(* The transcripts explored: up to MaxLines lines of one scenario of the   *)
(* library below, after no blank line or after as many as put the first    *)
(* library line last in the detector's sample.                             *)
(***************************************************************************)
\* the two lines of the end-to-end example
LineAlice ==
    <<"1", "/", "5", "/", "2", "3", ",", " ", "1", "0", ":", "1", "5", " ",
      "A", "M", " ", "-", " ", "A", "l", "i", "c", "e", ":", " ", "G", "o",
      "o", "d", " ", "m", "o", "r", "n", "i", "n", "g", "!", "\n">>

LineBob ==
    <<"1", "/", "5", "/", "2", "3", ",", " ", "1", "0", ":", "1", "6", " ",
      "A", "M", " ", "-", " ", "B", "o", "b", ":", " ", "M", "o", "r", "n",
      "i", "n", "g", "!">>

\* a message that ends right after "sender: "
LineEmptyBody ==
    <<"1", "/", "5", "/", "2", "3", ",", " ", "9", ":", "0", "7", " ", "A",
      "M", " ", "-", " ", "B", "o", "b", ":", " ">>

\* a sender that is a phone prefix and nothing else
LinePhoneOnly ==
    <<"1", "/", "6", "/", "2", "3", ",", " ", "1", "1", ":", "3", "0", " ",
      "P", "M", " ", "-", " ", "+", "1", "2", "3", " ", ":", " ", "h", "i",
      "\n">>

LinePhoneName ==
    <<"1", "/", "6", "/", "2", "3", ",", " ", "1", "2", ":", "0", "5", " ",
      "A", "M", " ", "-", " ", "+", "1", " ", "5", "5", "5", " ", "1", "2",
      "3", "4", " ", "A", "l", "i", "c", "e", ":", " ", "h", "i", "\n">>

\* a service message: no colon, no dash
LineJoined ==
    <<"1", "/", "5", "/", "2", "3", ",", " ", "1", "0", ":", "1", "4", " ",
      "A", "M", " ", "-", " ", "j", "o", "i", "n", "e", "d", "\n">>

\* a dash-delimited sender
LineDash ==
    <<"1", "/", "5", "/", "2", "3", ",", " ", "1", "0", ":", "1", "8", " ",
      "A", "M", " ", "-", " ", "a", " ", "-", " ", "b", "\n">>

LineTwoColons ==
    <<"1", "/", "5", "/", "2", "3", ",", " ", "1", "0", ":", "1", "9", " ",
      "A", "M", " ", "-", " ", "A", "l", ":", " ", "s", "e", "e", ":", " ",
      "t", "h", "i", "s", "\n">>

\* other catalog grammars
LineIso ==
    <<"2", "0", "2", "3", "-", "0", "1", "-", "0", "5", " ", "1", "0", ":",
      "1", "5", ":", "0", "0", " ", "-", " ", "A", "l", ":", " ", "h", "i",
      "\n">>

LineBracket ==
    <<"[", "1", "/", "5", "/", "2", "3", ",", " ", "1", "0", ":", "1", "5",
      ":", "0", "9", "]", " ", "A", "l", ":", " ", "h", "i", "\n">>

LineFullYear ==
    <<"2", "5", "/", "1", "2", "/", "2", "0", "2", "3", ",", " ", "2", "3",
      ":", "1", "5", " ", "-", " ", "A", "l", ":", " ", "l", "a", "t", "e",
      "\n">>

\* day-first only, month-first only, neither
LineDayFirst ==
    <<"1", "3", "/", "5", "/", "2", "3", ",", " ", "1", "0", ":", "1", "6",
      " ", "P", "M", " ", "-", " ", "B", "o", ":", " ", "x", "\n">>

LineMonthFirst ==
    <<"5", "/", "1", "3", "/", "2", "3", ",", " ", "9", ":", "0", "5", " ",
      "A", "M", " ", "-", " ", "B", "o", ":", " ", "y", "\n">>

LineBadDate ==
    <<"1", "3", "/", "1", "3", "/", "2", "3", ",", " ", "1", "0", ":", "1",
      "5", " ", "A", "M", " ", "-", " ", "A", "l", ":", " ", "z", "\n">>

\* no catalog pattern, but the catch-all matches
LineIsoShort ==
    <<"2", "0", "2", "3", "-", "0", "1", "-", "0", "5", " ", "1", "0", ":",
      "1", "5", " ", "-", " ", "A", "l", ":", " ", "h", "i", "\n">>

LineParen ==
    <<"(", "1", "/", "5", "/", "2", "3", ",", " ", "1", "0", ":", "1", "5",
      ")", " ", "n", "o", " ", "d", "a", "s", "h", " ", "h", "e", "r", "e",
      "\n">>

\* more than one spaced dash; a spaced dash and a colon on either side of it
LineTwoDashes ==
    <<"1", "/", "5", "/", "2", "3", ",", " ", "1", "0", ":", "2", "0", " ",
      "A", "M", " ", "-", " ", "a", " ", "-", " ", "b", " ", "-", " ", "c",
      "\n">>

LineDashColon ==
    <<"1", "/", "5", "/", "2", "3", ",", " ", "1", "0", ":", "2", "1", " ",
      "A", "M", " ", "-", " ", "a", " ", "-", " ", "b", ":", " ", "c", "\n">>

LineColonDash ==
    <<"1", "/", "5", "/", "2", "3", ",", " ", "1", "0", ":", "2", "2", " ",
      "A", "M", " ", "-", " ", "B", "o", ":", " ", "a", " ", "-", " ", "b",
      "\n">>

\* no timestamp at all
\* minutes written with one digit: no catalog pattern matches, the
\* catch-all does, and the first template reads the timestamp
LineShortMinute ==
    <<"1", "/", "5", "/", "2", "3", ",", " ", "1", "0", ":", "5", " ", "A",
      "M", " ", "-", " ", "A", "l", ":", " ", "h", "i", "\n">>

LineShortMinuteBob ==
    <<"1", "/", "5", "/", "2", "3", ",", " ", "1", "0", ":", "7", " ", "A",
      "M", " ", "-", " ", "B", "o", ":", " ", "y", "o", "\n">>

LineMedia ==
    <<"1", "/", "5", "/", "2", "3", ",", " ", "1", "0", ":", "3", "0", " ",
      "A", "M", " ", "-", " ", "A", "l", ":", " ", "<", "M", "e", "d", "i",
      "a", " ", "o", "m", "i", "t", "t", "e", "d", ">", "\n">>

LineText ==
    <<"h", "e", "l", "l", "o", "\n">>

\* the library, by what its lines exercise
Scenarios ==
    { {LineAlice, LineBob, LineEmptyBody},
      {LineJoined, LineDash, LineTwoColons},
      {LinePhoneOnly, LinePhoneName, LineBob},
      {LineIso, LineBracket, LineAlice},
      {LineDayFirst, LineMonthFirst, LineAlice},
      {LineBadDate, LineFullYear, LineAlice},
      {LineIsoShort, LineParen, LineText},
      {LineTwoDashes, LineDashColon, LineColonDash},
      {LineShortMinute, LineShortMinuteBob, LineMedia},
      {LineText, LineAlice, LineJoined} }

MaxLines == 3

RECURSIVE Concat(_)
Concat(parts) == IF parts = <<>> THEN <<>> ELSE parts[1] \o Concat(Tail(parts))

BlankLines(n) == [k \in 1..n |-> "\n"]

Transcripts ==
    {BlankLines(b) \o Concat(ls) :
        b \in {0, SampleLines - 1},
        ls \in UNION {[1..n -> lib] : n \in 0..MaxLines, lib \in Scenarios}}

(***************************************************************************)
(* Transcripts written from known (sender, timestamp, body) triples with   *)
(* the date template of a catalog grammar (strftime), one per line.        *)
(***************************************************************************)
Pad2(n) == <<DigitChar[((n \div 10) % 10) + 1], DigitChar[(n % 10) + 1]>>

\* strftime of one directive or literal of a template
StrftimeAtom(d, ts) ==
    CASE d = "%m" -> Pad2(ts.month)
      [] d = "%d" -> Pad2(ts.day)
      [] d = "%y" -> Pad2(ts.year % 100)
      [] d = "%Y" -> Pad2(ts.year \div 100) \o Pad2(ts.year % 100)
      [] d = "%H" -> Pad2(ts.hour)
      [] d = "%I" -> Pad2(IF ts.hour % 12 = 0 THEN 12 ELSE ts.hour % 12)
      [] d = "%M" -> Pad2(ts.minute)
      [] d = "%S" -> Pad2(ts.second)
      [] d = "%p" -> IF ts.hour < 12 THEN <<"A", "M">> ELSE <<"P", "M">>
      [] OTHER -> <<d>>

Strftime(fmt, ts) == Concat([k \in 1..Len(fmt) |-> StrftimeAtom(fmt[k], ts)])

Stamp(y, mo, d, h, mi, sec) ==
    [ok |-> TRUE, year |-> y, month |-> mo, day |-> d, hour |-> h,
     minute |-> mi, second |-> sec]

TextAl == <<"A", "l">>

TextBo == <<"B", "o">>

TextHi == <<"h", "i">>

TextYo == <<"y", "o">>

Triples ==
    { [sender |-> TextAl, ts |-> Stamp(2023, 1, 5, 10, 15, 0), body |-> TextHi],
      [sender |-> TextBo, ts |-> Stamp(2023, 5, 13, 22, 16, 9), body |-> TextYo],
      [sender |-> TextAl, ts |-> Stamp(2023, 12, 25, 0, 5, 30), body |-> TextYo] }

MaxTriples == 2

WriteLine(g, t) ==
    Strftime(date_patterns[g].date_format, t.ts) \o t.sender \o <<":", " ">>
        \o t.body \o NL

WriteTranscript(g, ts) == Concat([k \in 1..Len(ts) |-> WriteLine(g, ts[k])])

\* one message in every hour of a day, written with the first template
DayTranscript ==
    WriteTranscript(1, [h \in 1..24 |->
                           [sender |-> TextAl,
                            ts |-> Stamp(2023, 1, 5, h - 1, 15, 0),
                            body |-> TextHi]])

NoOrigin == [g |-> 0, triples |-> <<>>]

InitRest ==
    /\ pc = "detect"
    /\ detected_pattern = <<>>
    /\ detected_format = <<>>
    /\ detected_name = "None"
    /\ messages = <<>>
    /\ dates = <<>>
    /\ df = <<>>
    /\ successful_parse = FALSE
    /\ diag = <<>>
    /\ result = Pending
    /\ library = NotAsked
    /\ earlier = <<>>

\* no second invocation is in progress
NoOther == [pc |-> "none"]

\* the application is not modelled: preprocess is called on its own
NotRunning == [pos |-> "none"]

\* the scoring functions have not been called
NoCache == [pos |-> "none"]

\* preprocess alone
Alone ==
    /\ other = NoOther
    /\ app = NotRunning
    /\ cache = NoCache

\* origin remembers what a written transcript was written from
Init ==
    /\ \/ /\ data \in Transcripts \cup NonText \cup {DayTranscript}
          /\ origin = NoOrigin
       \/ \E g \in 1..Len(date_patterns), n \in 2..MaxTriples :
            \E ts \in [1..n -> Triples] :
                /\ origin = [g |-> g, triples |-> ts]
                /\ data = WriteTranscript(g, ts)
    /\ InitRest
    /\ Alone

\* the texts of another upload: one that a catalog template reads, one
\* that is left to the flexible interpreter
OtherUploads == { LineAlice \o LineBob, LineDayFirst \o LineMonthFirst }

Next == \/ Detect
        \/ Extract
        \/ Frame
        \/ ParseDates
        \/ DropUnparsed
        \/ ExtractUsers
        \/ TimeComponents
        \/ Validate
        \/ \E d \in {data} \cup OtherUploads : Reinvoke(d)

Spec == Init /\ [][Next]_vars

\* the positions of the control in preprocess
Positions ==
    {"detect", "extract", "frame", "parse_dates", "dropna_date", "users",
     "time", "validate", "done"}

\* the running invocation moves on: every stage changes the position, and
\* no other step does before the return
Advance == pc # "done" /\ pc' \in Positions \ {pc}

\* preprocess is one synchronous call: once entered it runs to its return
FairSpec == Spec /\ WF_pc(Advance)

(***************************************************************************)
(* Two invocations in progress at once (two sessions of the application,   *)
(* each in its own thread).  Every name preprocess assigns is a local of   *)
(* the call: the variables above hold the locals of the invocation that    *)
(* takes the next step, `other` those of the invocation that waits.        *)
(***************************************************************************)
\* the locals of the running invocation
Locals ==
    [data |-> data, origin |-> origin, pc |-> pc,
     detected_pattern |-> detected_pattern,
     detected_format |-> detected_format, detected_name |-> detected_name,
     messages |-> messages, dates |-> dates, df |-> df,
     successful_parse |-> successful_parse, diag |-> diag, result |-> result]

\* the locals of an invocation on the text d that has not taken a step
Fresh(d) ==
    [data |-> d, origin |-> NoOrigin, pc |-> "detect",
     detected_pattern |-> <<>>, detected_format |-> <<>>,
     detected_name |-> "None", messages |-> <<>>, dates |-> <<>>,
     df |-> <<>>, successful_parse |-> FALSE, diag |-> <<>>,
     result |-> Pending]

\* Resume with a list of bodies that all invocations share
ResumeSharedMessages(f) ==
    /\ data' = f.data
    /\ origin' = f.origin
    /\ pc' = f.pc
    /\ detected_pattern' = f.detected_pattern
    /\ detected_format' = f.detected_format
    /\ detected_name' = f.detected_name
    /\ messages' = messages
    /\ dates' = f.dates
    /\ df' = f.df
    /\ successful_parse' = f.successful_parse
    /\ diag' = f.diag
    /\ result' = f.result

\* the invocation with the locals f takes the next steps
Resume(f) ==
    /\ data' = f.data
    /\ origin' = f.origin
    /\ pc' = f.pc
    /\ detected_pattern' = f.detected_pattern
    /\ detected_format' = f.detected_format
    /\ detected_name' = f.detected_name
    /\ messages' = f.messages
    /\ dates' = f.dates
    /\ df' = f.df
    /\ successful_parse' = f.successful_parse
    /\ diag' = f.diag
    /\ result' = f.result

\* after each of two texts was processed alone, both are processed again,
\* by two invocations in progress at once
Fork ==
    /\ other = NoOther
    /\ pc = "done"
    /\ Len(earlier) = 1
    /\ earlier[1].data # data
    /\ earlier' = Append(earlier, [data |-> data, result |-> result])
    /\ other' = Fresh(data)
    /\ Resume(Fresh(earlier[1].data))
    /\ UNCHANGED <<library, app, cache>>

\* the scheduler lets the other invocation take the next steps
Switch ==
    /\ other # NoOther
    /\ other' = Locals
    /\ Resume(other)
    /\ UNCHANGED <<library, earlier, app, cache>>

\* the texts of the two uploads: read by a catalog template, left to the
\* flexible interpreter, recovered by the generic fallback, too short
PairTexts ==
    OtherUploads \cup {LineShortMinute \o LineShortMinuteBob, LineAlice}

PairInit ==
    /\ data \in PairTexts
    /\ origin = NoOrigin
    /\ InitRest
    /\ Alone

PairNext ==
    \/ Detect
    \/ Extract
    \/ Frame
    \/ ParseDates
    \/ DropUnparsed
    \/ ExtractUsers
    \/ TimeComponents
    \/ Validate
    \/ \E d \in PairTexts \ {data} : Reinvoke(d)
    \/ Fork
    \/ Switch

PairSpec == PairInit /\ [][PairNext]_vars

(***************************************************************************)
(* One run of the application script (app.py) on an uploaded transcript:   *)
(* decode, preprocess, build the user selector, route to the analysis the  *)
(* sidebar names.  `app` holds the script's state; app.df is the frame     *)
(* object the script hands to the routines, so it changes only where a     *)
(* routine assigns into the object it was given.                           *)
(***************************************************************************)
Overall == <<"O", "v", "e", "r", "a", "l", "l">>

\* the literal '<Media omitted>\n' of fetch_stats and extract_topics
MediaOmitted ==
    <<"<", "M", "e", "d", "i", "a", " ", "o", "m", "i", "t", "t", "e", "d",
      ">", "\n">>

\* st.error of app.py line 111
ErrApp == Msg("error", "Error processing the chat file")

\* the options of the sidebar radio
AnalysisTypes ==
    {"Chat Analysis", "Sentiment Analysis", "Topic Analysis",
     "Time Comparison"}

\* the script at the call of preprocess, the sidebar naming the analysis t
AppStart(t) ==
    [pos |-> "preprocess", analysis_type |-> t, shown |-> <<>>,
     built |-> FALSE, user_list |-> {}, selected_user |-> Overall,
     called |-> {}, df |-> Pending,
     stats |-> [num_msgs |-> 0, num_of_media |-> 0]]

\* lines 115-119: the options of the selector.  The sort only orders the
\* options on the screen, so they are kept as a set.
UserList(rows) ==
    {Overall} \cup ({rows[k].user : k \in 1..Len(rows)} \ {group_notification})

\* df[df['user'] == selected_user] unless 'Overall' is selected: a new frame
ByUser(selected_user, rows) ==
    IF selected_user # Overall
    THEN SelectSeq(rows, LAMBDA r : r.user = selected_user)
    ELSE rows

\* helper.py lines 65-83 without the word and link counts
fetch_stats(selected_user, rows) ==
    LET own == ByUser(selected_user, rows)
    IN  [num_msgs |-> Len(own),
         num_of_media |->
             Len(SelectSeq(own, LAMBDA r : r.message = MediaOmitted))]

\* the test of the result without st.stop
AppCheckNoStop ==
    /\ app.pos = "preprocess"
    /\ pc = "done"
    /\ IF result.kind # "DataFrame"
       THEN app' = [app EXCEPT !.shown = Append(@, ErrApp),
                               !.built = TRUE,
                               !.pos = "route"]
       ELSE \E u \in UserList(result.rows) :
               app' = [app EXCEPT !.df = result,
                                  !.user_list = UserList(result.rows),
                                  !.built = TRUE,
                                  !.selected_user = u,
                                  !.pos = "route"]
    /\ UNCHANGED <<data, origin, pc, detected_pattern, detected_format,
                   detected_name, messages, dates, df, successful_parse,
                   diag, result, library, earlier, other, cache>>

\* app.py lines 109-120: without a dataset the script reports and stops
\* (st.stop raises a control exception the except clause of line 205 does
\* not catch); with one it builds the selector, in which the user selects
AppCheck ==
    /\ app.pos = "preprocess"
    /\ pc = "done"
    /\ IF result.kind # "DataFrame"
       THEN app' = [app EXCEPT !.shown = Append(@, ErrApp),
                               !.pos = "stopped"]
       ELSE \E u \in UserList(result.rows) :
               app' = [app EXCEPT !.df = result,
                                  !.user_list = UserList(result.rows),
                                  !.built = TRUE,
                                  !.selected_user = u,
                                  !.pos = "route"]
    /\ UNCHANGED <<data, origin, pc, detected_pattern, detected_format,
                   detected_name, messages, dates, df, successful_parse,
                   diag, result, library, earlier, other, cache>>

\* what every routing action leaves alone
RouteFrame ==
    UNCHANGED <<data, origin, pc, detected_pattern, detected_format,
                detected_name, messages, dates, df, successful_parse,
                diag, result, library, earlier, other, cache>>

\* app.py line 198, components/chat_analysis.py: behind the sidebar button
\* the statistics, the heatmap and the response times are computed.
\* fetch_stats and activity_heatmap rebind df to a filtered frame
\* (helper.py lines 66, 408, 416) and calculate_response_times works on
\* df.copy() (line 478): the object handed in is not assigned into.
RunChatAnalysis ==
    /\ app.pos = "route"
    /\ app.analysis_type = "Chat Analysis"
    /\ \E chat_analysis_btn \in BOOLEAN :
          IF chat_analysis_btn
          THEN app' = [app EXCEPT
                         !.called = @ \cup {"run_chat_analysis", "fetch_stats",
                                            "activity_heatmap",
                                            "calculate_response_times"},
                         !.stats = fetch_stats(app.selected_user, app.df.rows),
                         !.pos = "finished"]
          ELSE app' = [app EXCEPT !.called = @ \cup {"run_chat_analysis"},
                                  !.pos = "finished"]
    /\ RouteFrame

\* app.py line 200: analyze_sentiment filters into new frames and adds its
\* columns to df.copy() (sentiment.py lines 171-178)
RunSentimentAnalysis ==
    /\ app.pos = "route"
    /\ app.analysis_type = "Sentiment Analysis"
    /\ \E sentiment_analysis_btn \in BOOLEAN :
          app' = [app EXCEPT
                    !.called = @ \cup
                        (IF sentiment_analysis_btn
                         THEN {"run_sentiment_analysis", "analyze_sentiment"}
                         ELSE {"run_sentiment_analysis"}),
                    !.pos = "finished"]
    /\ RouteFrame

\* app.py line 202: extract_topics only filters (topic_analysis.py lines
\* 373-378)
RunTopicAnalysis ==
    /\ app.pos = "route"
    /\ app.analysis_type = "Topic Analysis"
    /\ \E topic_analysis_btn \in BOOLEAN :
          app' = [app EXCEPT
                    !.called = @ \cup
                        (IF topic_analysis_btn
                         THEN {"run_topic_analysis", "extract_topics"}
                         ELSE {"run_topic_analysis"}),
                    !.pos = "finished"]
    /\ RouteFrame

\* the calendar day of a row as a number that grows with the date
Day(row) == DayNumber(row.date)

FirstDay(rows) == Lowest({Day(rows[k]) : k \in 1..Len(rows)})

LastDay(rows) ==
    CHOOSE d \in {Day(rows[k]) : k \in 1..Len(rows)} :
        \A k \in 1..Len(rows) : Day(rows[k]) <= d

PeriodDays == 30

\* what the user can leave in the two date inputs of a period whose
\* default start is `start`: the default (start, start + 30 days), an end
\* before the start, a period after the whole chat
PeriodInputs(start) ==
    { <<start, start + PeriodDays>>, <<start + PeriodDays, start>>,
      <<start + PeriodDays + 1, start + 2 * PeriodDays + 1>> }

\* line 86: the column date_obj is assigned into the frame
WithDateObj(row) ==
    [f \in DOMAIN row \cup {"date_obj"} |->
        IF f = "date_obj" THEN Day(row) ELSE row[f]]

\* df[df['date_obj'].between(start, end)]
Between(rows, period) ==
    SelectSeq(rows, LAMBDA r : period[1] <= r.date_obj /\ r.date_obj <= period[2])

\* app.py line 204, components/time_comparison.py: the periods are
\* validated (lines 51-57); behind the button the column date_obj is
\* assigned into df, the frame of the caller (line 86), the two periods
\* are cut out of it and the run stops when one is empty (lines 94-99)
RunTimeComparison ==
    /\ app.pos = "route"
    /\ app.analysis_type = "Time Comparison"
    /\ \E compare_button \in BOOLEAN,
          p1 \in PeriodInputs(FirstDay(app.df.rows)),
          p2 \in PeriodInputs(LastDay(app.df.rows) - PeriodDays) :
          LET dated == [k \in 1..Len(app.df.rows) |->
                           WithDateObj(app.df.rows[k])]
              arrived == [app EXCEPT !.called = @ \cup {"run_time_comparison"}]
          IN  IF p1[1] >= p1[2] \/ p2[1] >= p2[2]
              THEN app' = [arrived EXCEPT
                             !.shown = Append(@, Msg("error",
                                 "the start date must be before the end date")),
                             !.pos = "stopped"]
              ELSE IF ~compare_button
              THEN app' = [arrived EXCEPT !.pos = "finished"]
              ELSE IF Between(dated, p1) = <<>> \/ Between(dated, p2) = <<>>
              THEN app' = [arrived EXCEPT
                             !.df = DataFrame(dated),
                             !.shown = Append(@, Msg("warning",
                                 "One or both periods contain no messages")),
                             !.pos = "stopped"]
              ELSE app' = [arrived EXCEPT !.df = DataFrame(dated),
                                          !.pos = "finished"]
    /\ RouteFrame

\* a media message after a text message: with its line break, as the last
\* line of a file that does not end with a line break, and without sender
LineMediaLast ==
    SubSeq(LineMedia, 1, Len(LineMedia) - 1)

LineMediaNoSender ==
    <<"1", "/", "5", "/", "2", "3", ",", " ", "1", "0", ":", "3", "1", " ",
      "A", "M", " ", "-", " ", "<", "M", "e", "d", "i", "a", " ", "o", "m",
      "i", "t", "t", "e", "d", ">", "\n">>

\* the uploads: chats with media messages, a chat of two senders, a chat
\* whose dates are left to the flexible interpreter, a chat of a single
\* message, a file that is no chat
AppUploads ==
    { LineAlice \o LineMedia, LineAlice \o LineMediaLast,
      LineAlice \o LineMediaNoSender, LineAlice \o LineBob,
      LineDayFirst \o LineMonthFirst, LineAlice, LineText }

AppInit ==
    /\ data \in AppUploads
    /\ origin = NoOrigin
    /\ InitRest
    /\ other = NoOther
    /\ cache = NoCache
    /\ app \in {AppStart(t) : t \in AnalysisTypes}

AppNext ==
    \/ Detect
    \/ Extract
    \/ Frame
    \/ ParseDates
    \/ DropUnparsed
    \/ ExtractUsers
    \/ TimeComponents
    \/ Validate
    \/ AppCheck
    \/ RunChatAnalysis
    \/ RunSentimentAnalysis
    \/ RunTopicAnalysis
    \/ RunTimeComparison

AppSpec == AppInit /\ [][AppNext]_vars

(***************************************************************************)
(* The memoized scoring of single messages: get_sentiment_score and        *)
(* clean_text (models/sentiment.py), calculate_topic_scores and            *)
(* preprocess_text (models/topic_analysis.py), each wrapped in             *)
(* functools.lru_cache.  A cache is the sequence of its entries, the       *)
(* least recently used first.  The process runs in one environment: the    *)
(* NLTK data and stop_hinglish.txt it finds do not change while it runs.   *)
(***************************************************************************)
LowerCase ==
    <<"a", "b", "c", "d", "e", "f", "g", "h", "i", "j", "k", "l", "m", "n",
      "o", "p", "q", "r", "s", "t", "u", "v", "w", "x", "y", "z">>

UpperCase ==
    <<"A", "B", "C", "D", "E", "F", "G", "H", "I", "J", "K", "L", "M", "N",
      "O", "P", "Q", "R", "S", "T", "U", "V", "W", "X", "Y", "Z">>

Letter == {LowerCase[k] : k \in 1..Len(LowerCase)} \cup
          {UpperCase[k] : k \in 1..Len(UpperCase)}

\* \w
Word == Letter \cup Digit \cup {"_"}

\* str.lower of one character
ToLower(c) ==
    IF \E k \in 1..Len(UpperCase) : UpperCase[k] = c
    THEN LowerCase[CHOOSE k \in 1..Len(UpperCase) : UpperCase[k] = c]
    ELSE c

\* r'http\S+'
url_pattern ==
    <<Lit("h"), Lit("t"), Lit("t"), Lit("p"), Cls(Space, TRUE, 1, -1, FALSE)>>

\* r'[^\w\s,.!?:;()\'"-]'
special_pattern ==
    <<Cls(Word \cup Space \cup
          {",", ".", "!", "?", ":", ";", "(", ")", "'", "\"", "-"},
          TRUE, 1, 1, FALSE)>>

\* r'\s+'
spaces_pattern == <<Rep(Space, 1, -1)>>

\* r'[^a-zA-Z\s]'
non_letter_pattern == <<Cls(Letter \cup Space, TRUE, 1, 1, FALSE)>>

\* re.sub(pat, repl, s) for a pattern without groups
ReSub(pat, repl, s) == StrJoin(repl, ReSplit(pat, s))

\* sentiment.py lines 57-83, the function under the cache
clean_text(text) ==
    StrStrip(ReSub(spaces_pattern, <<" ">>,
                   ReSub(special_pattern, <<" ">>,
                         ReSub(url_pattern, <<>>, text))))

\* str.split(): the pieces between runs of whitespace
Tokens(text) == SelectSeq(ReSplit(spaces_pattern, text), LAMBDA t : t # <<>>)

\* the fallback stop words of topic_analysis.py line 258
fallback_stop_words ==
    {<<"i">>, <<"m", "e">>, <<"m", "y">>, <<"m", "y", "s", "e", "l", "f">>,
     <<"w", "e">>, <<"o", "u", "r">>, <<"o", "u", "r", "s">>, <<"o", "u",
     "r", "s", "e", "l", "v", "e", "s">>}

\* the stop words the environment gives: the fallback when the NLTK corpus
\* is missing, and with entries of the corpus or of stop_hinglish.txt
StopWordSets ==
    { fallback_stop_words,
      fallback_stop_words \cup {<<"t", "h", "e">>, <<"a", "n", "d">>} }

\* topic_analysis.py lines 223-271, the function under the cache.  After
\* line 244 the text holds letters and whitespace only; it is tokenized at
\* whitespace (on such text word_tokenize differs only for the
\* contractions of its word list, which no text explored holds).
preprocess_text(text, stop_words) ==
    IF text = <<>> THEN <<>>
    ELSE StrJoin(<<" ">>,
             SelectSeq(Tokens(ReSub(non_letter_pattern, <<" ">>,
                                    [k \in 1..Len(text) |-> ToLower(text[k])])),
                       LAMBDA t : t \notin stop_words /\ Len(t) > 2))

\* lines 309-315: the tokens that equal a topic word or lie within one of
\* more than four characters
Matches(tokens, topic_words) ==
    Len(SelectSeq(tokens, LAMBDA token :
            \E k \in 1..Len(topic_words) :
                \/ token = topic_words[k]
                \/ Len(topic_words[k]) > 4 /\ Find(topic_words[k], token, 1) # 0))

\* lines 300-318 given the preprocessed text: matches / len(tokens), in
\* thousandths
TopicScore(prepared, topic_words) ==
    IF Tokens(prepared) = <<>> THEN 0
    ELSE (1000 * Matches(Tokens(prepared), topic_words)) \div
             Len(Tokens(prepared))

\* what the sentiment library (VADER, else TextBlob) can return for a text
Polarities == {-1, 1}

\* the library is a function of the cleaned text: once it has scored a
\* text, it scores it the same
Scored(clean) == {a \in cache.answers : a.clean = clean}

PolarityAnswers(clean) ==
    IF Scored(clean) # {} THEN Scored(clean)
    ELSE {[clean |-> clean, score |-> v] : v \in Polarities}

\* functools.lru_cache: position of the entry for key, 0 when absent
Index(c, key) == LowestOr({k \in 1..Len(c) : c[k].key = key}, 0)

\* the cache after a call with key whose uncached computation gives value:
\* a hit makes the entry the most recently used, a miss appends the value
\* and, beyond maxsize, drops the least recently used entry
Through(c, key, value, maxsize) ==
    IF Index(c, key) # 0
    THEN SelectSeq(c, LAMBDA e : e.key # key) \o <<c[Index(c, key)]>>
    ELSE IF Len(c) >= maxsize
    THEN Append(Tail(c), [key |-> key, value |-> value])
    ELSE Append(c, [key |-> key, value |-> value])

\* what the wrapper returns: the stored value on a hit, else the computed
Served(c, key, value) ==
    IF Index(c, key) # 0 THEN c[Index(c, key)].value ELSE value

\* the key dropped last: by this call, else as before
Dropped(c, key, maxsize, before) ==
    IF Index(c, key) = 0 /\ Len(c) >= maxsize THEN {c[1].key} ELSE before

\* maxsize of get_sentiment_score, and of clean_text, preprocess_text and
\* calculate_topic_scores, scaled down from 2048 and 1024
MaxScores == 2

MaxTexts == 1

\* the key of calculate_topic_scores without the topic words
TopicKeyTextOnly(text, topic_words_tuple) == <<text, <<>>>>

\* the key lru_cache makes of the arguments of calculate_topic_scores
TopicKey(text, topic_words_tuple) == <<text, topic_words_tuple>>

\* sentiment.py lines 91-127 under lru_cache
GetSentimentScore(text) ==
    /\ cache.pos = "serving"
    /\ LET hit == Index(cache.scores, text) # 0
           plain == text = <<>> \/ text = MediaOmitted
           asks == ~hit /\ ~plain
           clean == IF asks
                    THEN Served(cache.cleaned, text, clean_text(text))
                    ELSE <<>>
       IN  \E a \in PolarityAnswers(clean) :
              LET score == IF clean = <<>> THEN 0 ELSE a.score
              IN  cache' = [cache EXCEPT
                      !.scores = Through(@, text, score, MaxScores),
                      !.cleaned = IF asks
                                  THEN Through(@, text, clean, MaxTexts)
                                  ELSE @,
                      !.answers = IF asks /\ clean # <<>>
                                  THEN @ \cup {a} ELSE @,
                      !.gone = Dropped(cache.scores, text, MaxScores, @),
                      !.last = [fn |-> "get_sentiment_score", text |-> text,
                                topic_words |-> <<>>, hit |-> hit,
                                again |-> text \in cache.gone,
                                value |-> Served(cache.scores, text, score)]]
    /\ UNCHANGED <<data, origin, pc, detected_pattern, detected_format,
                   detected_name, messages, dates, df, successful_parse,
                   diag, result, library, earlier, other, app>>

\* topic_analysis.py lines 279-318 under lru_cache
CalculateTopicScores(text, topic_words_tuple) ==
    /\ cache.pos = "serving"
    /\ LET key == TopicKey(text, topic_words_tuple)
           hit == Index(cache.topics, key) # 0
           asks == ~hit /\ text # <<>>
           prepared == IF asks
                       THEN Served(cache.prepared, text,
                                   preprocess_text(text, cache.stop_words))
                       ELSE <<>>
           score == TopicScore(prepared, topic_words_tuple)
       IN  cache' = [cache EXCEPT
               !.topics = Through(@, key, score, MaxTexts),
               !.prepared = IF asks
                            THEN Through(@, text, prepared, MaxTexts)
                            ELSE @,
               !.last = [fn |-> "calculate_topic_scores", text |-> text,
                         topic_words |-> topic_words_tuple, hit |-> hit,
                         again |-> FALSE,
                         value |-> Served(cache.topics, key, score)]]
    /\ UNCHANGED <<data, origin, pc, detected_pattern, detected_format,
                   detected_name, messages, dates, df, successful_parse,
                   diag, result, library, earlier, other, app>>

\* the message bodies scored: a sentence, a word with and without an
\* emoji, the media placeholder, the empty text
TextLove ==
    <<"I", " ", "l", "o", "v", "e", " ", "t", "h", "e", " ", "p", "i", "z",
      "z", "a", "\n">>

TextPizza ==
    <<"p", "i", "z", "z", "a", "\n">>

TextPizzaSmiley ==
    <<"p", "i", "z", "z", "a", " ", "smiley", "\n">>

SentimentTexts == {TextPizza, TextPizzaSmiley, MediaOmitted}

TopicTexts == {TextLove, TextPizza, <<>>}

\* tuple(keywords) of two topics
TopicWords ==
    { <<<<"f", "o", "o", "d">>, <<"p", "i", "z", "z", "a", "s">>>>,
      <<<<"l", "o", "v", "e">>, <<"h", "a", "p", "p", "y">>>> }

NoCall ==
    [fn |-> "none", text |-> <<>>, topic_words |-> <<>>, hit |-> FALSE,
     again |-> FALSE, value |-> 0]

CacheInit ==
    /\ data = LineAlice \o LineBob
    /\ origin = NoOrigin
    /\ InitRest
    /\ other = NoOther
    /\ app = NotRunning
    /\ cache \in {[pos |-> "serving", stop_words |-> w, scores |-> <<>>,
                   cleaned |-> <<>>, topics |-> <<>>, prepared |-> <<>>,
                   answers |-> {}, gone |-> {}, last |-> NoCall] :
                  w \in StopWordSets}

CacheNext ==
    \/ \E text \in SentimentTexts : GetSentimentScore(text)
    \/ \E text \in TopicTexts, topic_words_tuple \in TopicWords :
          CalculateTopicScores(text, topic_words_tuple)

CacheSpec == CacheInit /\ [][CacheNext]_vars

(***************************************************************************)
(* Properties.                                                             *)
(***************************************************************************)
Returned == result.kind = "DataFrame"

Rows == result.rows

Errors == {k \in 1..Len(diag) : diag[k].level = "error"}

TextAlice == <<"A", "l", "i", "c", "e">>

TextBob == <<"B", "o", "b">>

TextGoodMorning ==
    <<"G", "o", "o", "d", " ", "m", "o", "r", "n", "i", "n", "g", "!">>

TextMorning == <<"M", "o", "r", "n", "i", "n", "g", "!">>

ExampleTranscript == LineAlice \o LineBob

ExampleRecord(r, user, message) ==
    /\ r.user = user
    /\ r.message = message
    /\ r.hour = 10
    /\ r.period = "10AM-11AM"

\* C1 as stated: the example transcript parses to (Alice, "Good morning!",
\* hour 10, 10AM-11AM) and (Bob, "Morning!", hour 10, 10AM-11AM).
C1_ExampleAsStated ==
    (pc = "done" /\ data = ExampleTranscript) =>
        /\ Returned
        /\ Len(Rows) = 2
        /\ ExampleRecord(Rows[1], TextAlice, TextGoodMorning)
        /\ ExampleRecord(Rows[2], TextBob, TextMorning)

\* C1 amended: the same two records, but the first body keeps the line
\* break that ends its line, "Good morning!\n"; only the last body, which
\* no line break follows in the transcript, is exactly "Morning!".
C1_Example ==
    (pc = "done" /\ data = ExampleTranscript) =>
        /\ Returned
        /\ Len(Rows) = 2
        /\ ExampleRecord(Rows[1], TextAlice, TextGoodMorning \o NL)
        /\ ExampleRecord(Rows[2], TextBob, TextMorning)

C1_Witness == pc = "done" /\ data = ExampleTranscript /\ Returned

\* the timestamps agree up to the resolution of grammar g
SameTime(a, b, g) ==
    /\ a.ok /\ a.year = b.year /\ a.month = b.month /\ a.day = b.day
    /\ a.hour = b.hour /\ a.minute = b.minute
    /\ ("%S" \in {date_patterns[g].date_format[k] :
                    k \in 1..Len(date_patterns[g].date_format)}
            => a.second = b.second)

\* C2 (its sender and timestamp part; the body part fails as in C1): a
\* transcript written from triples with the template of any catalog grammar
\* parses to as many records, in order, with the same senders and the
\* same timestamps, day and month not swapped.
C2_RoundTrip ==
    (pc = "done" /\ origin.g # 0) =>
        /\ Returned
        /\ Len(Rows) = Len(origin.triples)
        /\ \A k \in 1..Len(origin.triples) :
              /\ Rows[k].user = origin.triples[k].sender
              /\ SameTime(Rows[k].date, origin.triples[k].ts, origin.g)

\* C3: a dataset is returned exactly when at least 2 rows survive the
\* validation; with 1 row the result is None after the "too few" error,
\* with 2 rows it is a dataset of 2 records; no dataset has fewer than 2.
C3_MinimumRecords ==
    [][ /\ pc = "validate" =>
            /\ Returned' <=> Len(df') >= 2
            /\ Len(df') = 1 =>
                  result' = None /\ diag' = Append(diag, ErrTooFew)
            /\ Len(df') = 2 => Returned' /\ Len(Rows') = 2
        /\ Returned' => pc = "validate" /\ Rows' = df' /\ Len(Rows') >= 2
      ]_vars

C3_Witness ==
    /\ pc = "done" /\ result = None /\ Len(df) = 1
    /\ diag[Len(diag)] = ErrTooFew

C5_SenderNonEmpty ==
    Returned => \A k \in 1..Len(Rows) : Len(Rows[k].user) >= 1

\* C6: the records of a returned dataset are extracted messages in their
\* order of extraction: their row labels increase, and record k is what
\* SECTIONS 6-7 make of the message with its label; never sorted by time.
C6_OrderPreserved ==
    Returned =>
        /\ \A k \in 1..(Len(Rows) - 1) : Rows[k].idx < Rows[k + 1].idx
        /\ \A k \in 1..Len(Rows) :
              /\ Rows[k].idx \in 1..Len(messages)
              /\ Rows[k].user = StripPhone(SplitUser(messages[Rows[k].idx])[1])
              /\ Rows[k].message = SplitUser(messages[Rows[k].idx])[2]

\* rows were dropped by the flexible fallback and the timestamps of the
\* rows that remain go backwards
C6_Witness ==
    /\ Returned
    /\ Len(Rows) < Len(messages)
    /\ \E k \in 1..(Len(Rows) - 1) :
          Before(Rows[k + 1].date, Rows[k].date)

\* the positions of the line breaks of d, in order
Newlines(d) == SelectSeq([i \in 1..Len(d) |-> i], LAMBDA i : d[i] = "\n")

\* the first 10 lines of d: all of d before its 10th line break
FirstTenLines(d) ==
    IF Len(Newlines(d)) < 10 THEN d ELSE SubSeq(d, 1, Newlines(d)[10] - 1)

MatchingGrammars(text) ==
    {g \in 1..Len(date_patterns) : ReSearch(date_patterns[g].pattern, text)}

\* C7: the detector selects the catalog grammar of lowest index whose
\* pattern occurs somewhere in the first 10 lines; later lines play no part.
C7_DetectFirstTen ==
    pc = "extract" =>
        LET m == MatchingGrammars(FirstTenLines(data)) IN
        IF m = {} THEN detected_name = "Generic fallback"
        ELSE LET g == CHOOSE g \in m : \A h \in m : g <= h
             IN  /\ detected_name = date_patterns[g].pattern_name
                 /\ detected_pattern = date_patterns[g].pattern
                 /\ detected_format = date_patterns[g].date_format

\* a grammar of lower index occurs after line 10 and was not selected
C7_Witness ==
    /\ pc = "extract"
    /\ detected_name = "ISO format"
    /\ ReSearch(pattern_12h_1, data)

\* C8: when no catalog pattern occurs in the first 10 lines, detection
\* reports one warning and no error, adopts the pattern of the first
\* catalog grammar and goes on to the extraction.
C8_UnrecognizedContinues ==
    [][ (pc = "detect" /\ data \notin NonText
            /\ MatchingGrammars(FirstTenLines(data)) = {}) =>
            /\ pc' = "extract"
            /\ result' = Pending
            /\ Len(diag') = 1
            /\ diag'[1].level = "warning"
            /\ detected_pattern' = date_patterns[1].pattern
      ]_vars

C8_Witness ==
    /\ pc = "extract"
    /\ detected_name = "Generic fallback"
    /\ data # <<>>

RECURSIVE Interleave(_, _)
\* fragment 1, body 1, fragment 2, body 2, ... as one text
Interleave(ds, ms) ==
    IF ds = <<>> THEN <<>>
    ELSE ds[1] \o ms[1] \o Interleave(Tail(ds), Tail(ms))

\* C9: date parsing receives as many bodies as fragments, and body i is
\* the text after fragment i: on the primary path the fragments (each a
\* match of the pattern) and the bodies (none containing a match)
\* alternate to make up the transcript from the first match to its end; on
\* the fallback path fragment i followed by body i is a piece of the
\* transcript.
C9_Aligned ==
    pc = "frame" =>
        /\ Len(messages) = Len(dates)
        /\ IF Errors = {}
           THEN /\ \E p \in 0..Len(data) :
                      SubSeq(data, p + 1, Len(data)) = Interleave(dates, messages)
                /\ \A i \in 1..Len(dates) :
                      /\ MatchAt(detected_pattern, 1, dates[i], 1) = Len(dates[i]) + 1
                      /\ ~ReSearch(detected_pattern, messages[i])
           ELSE \A i \in 1..Len(dates) :
                   Find(data, dates[i] \o messages[i], 1) # 0

\* a body that runs over a continuation line
C9_Witness ==
    /\ pc = "frame"
    /\ Len(messages) >= 2
    /\ \E i \in 1..Len(messages) :
          Find(messages[i], NL, 1) \notin {0, Len(messages[i])}

\* no block of the catch-all pattern contains " - "
NoPairs(d) ==
    LET blocks == ReFindall(generic_pattern, d)
    IN  \A k \in 1..Len(blocks) : Find(blocks[k], DashSep, 1) = 0

\* C10: when the pattern in use extracts nothing and the catch-all yields
\* no (timestamp, body) pair, the result is None and an error was
\* reported; no returned dataset is empty.
C10_NothingExtracted ==
    /\ (pc = "done" /\ data \notin NonText
            /\ ~ReSearch(detected_pattern, data) /\ NoPairs(data)) =>
          result = None /\ Errors # {}
    /\ Returned => Len(Rows) > 0

\* the catch-all matched lines, none of them with " - "
C10_Witness ==
    /\ pc = "done"
    /\ result = None
    /\ data \notin NonText
    /\ ~ReSearch(detected_pattern, data)
    /\ ReSearch(generic_pattern, data)
    /\ NoPairs(data)

\* the catalog entries whose template reads every fragment of col
ParsingTemplates(col) ==
    {g \in 1..Len(date_patterns) :
        \A k \in 1..Len(col) : Strptime(date_patterns[g].date_format, col[k]).ok}

\* C11: when some catalog template reads every timestamp fragment, every
\* row carries the reading of the lowest such template (so the month-first
\* one of a month-first/day-first pair), whatever the detector selected,
\* and no row is lost; the flexible interpreter is only reached when no
\* template reads the whole column.
C11_FirstFullTemplate ==
    /\ (pc = "users" /\ ParsingTemplates(dates) # {}) =>
          LET fmt == date_patterns[Lowest(ParsingTemplates(dates))].date_format
          IN  /\ successful_parse
              /\ Len(df) = Len(dates)
              /\ \A k \in 1..Len(df) : df[k].date = Strptime(fmt, dates[k])
    /\ pc = "dropna_date" => ParsingTemplates(dates) = {}

\* a transcript written day-first whose days are all at most 12: the
\* month-first and the day-first template both read it, differently, and
\* the rows carry the month-first reading
C11_Witness ==
    /\ pc = "users"
    /\ origin.g = 2
    /\ {1, 2} \subseteq ParsingTemplates(dates)
    /\ \A k \in 1..Len(df) :
          /\ df[k].date = Strptime(date_patterns[1].date_format, dates[k])
          /\ df[k].date # Strptime(date_patterns[2].date_format, dates[k])

\* C12: when no catalog template reads the whole column, the flexible
\* interpreter is called on it; its answer dates every row (or it raises,
\* and preprocess fails with an error report).  Then exactly the rows it
\* left without a timestamp are dropped, the others kept as they are and
\* in order; with none left the result is None after an error report,
\* otherwise processing goes on.
C12_FlexibleFallback ==
    [][ /\ (pc = "parse_dates"
             /\ ParsingTemplates(Column(df, "message_date")) = {}) =>
            \/ /\ pc' = "dropna_date"
               /\ result' = Pending
               /\ Len(df') = Len(df)
               /\ \A k \in 1..Len(df) :
                     /\ df'[k].idx = df[k].idx
                     /\ df'[k].user_message = df[k].user_message
            \/ /\ pc' = "done"
               /\ result' = None
               /\ diag' = Append(diag, ErrFlexible)
        /\ pc = "dropna_date" =>
            /\ \A k \in 1..Len(df) :
                  df[k].date.ok <=> \E j \in 1..Len(df') : df'[j] = df[k]
            /\ Len(df') = Cardinality({k \in 1..Len(df) : df[k].date.ok})
            /\ \A j \in 1..(Len(df') - 1) : df'[j].idx < df'[j + 1].idx
            /\ IF Len(df') = 0
               THEN /\ pc' = "done"
                    /\ result' = None
                    /\ diag' = Append(diag, ErrDates)
               ELSE /\ pc' = "users"
                    /\ result' = Pending
                    /\ diag' = diag
      ]_vars

\* the flexible interpreter dated some rows and not others
C12_Witness ==
    /\ pc = "users"
    /\ ParsingTemplates(dates) = {}
    /\ Len(df) > 0
    /\ Len(df) < Len(dates)

\* the text of the extracted message a record was made from
Source(r) == messages[r.idx]

\* position of the first colon of m that white space follows, 0 if none
FirstColon(m) ==
    LET at == {i \in 1..(Len(m) - 1) : m[i] = ":" /\ m[i + 1] \in Space}
    IN  IF at = {} THEN 0 ELSE Lowest(at)

\* position of the white space before the first dash of m that stands
\* between two white-space characters, 0 if none
FirstDash(m) ==
    LET at == {i \in 1..(Len(m) - 2) :
                  m[i] \in Space /\ m[i + 1] \in Dash /\ m[i + 2] \in Space}
    IN  IF at = {} THEN 0 ELSE Lowest(at)

\* C13: the record of a message with a colon followed by white space has
\* as sender the text before the first such colon (phone prefix stripped)
\* and as body all the text after that colon and its white space,
\* unchanged.
C13_ColonSplit ==
    Returned => \A k \in 1..Len(Rows) :
        LET m == Source(Rows[k])
            c == FirstColon(m)
        IN  c # 0 =>
              /\ Rows[k].user = StripPhone(SubSeq(m, 1, c - 1))
              /\ Rows[k].message = SubSeq(m, c + 2, Len(m))

\* C14: the record of a message without colon delimiter but with a spaced
\* dash has as sender the text before the first spaced dash and as body
\* all the text after it; with both delimiters the sender is the text
\* before the first colon delimiter.
C14_DashRule ==
    Returned => \A k \in 1..Len(Rows) :
        LET m == Source(Rows[k])
            c == FirstColon(m)
            d == FirstDash(m)
        IN  /\ (c = 0 /\ d # 0) =>
                  /\ Rows[k].user = StripPhone(SubSeq(m, 1, d - 1))
                  /\ Rows[k].message = SubSeq(m, d + 3, Len(m))
            /\ (c # 0 /\ d # 0) =>
                  Rows[k].user = StripPhone(SubSeq(m, 1, c - 1))

\* b is m without its leading and trailing white space
Trimmed(m, b) ==
    /\ b # <<>> => b[1] \notin Space /\ b[Len(b)] \notin Space
    /\ \E i \in 0..Len(m) :
          /\ i + Len(b) <= Len(m)
          /\ \A j \in 1..Len(b) : m[i + j] = b[j]
          /\ \A j \in 1..Len(m) : (j <= i \/ j > i + Len(b)) => m[j] \in Space

\* C15: the record of a message without colon delimiter and without
\* spaced dash has the sender group_notification and as body the whole
\* message without its leading and trailing white space.
C15_GroupNotification ==
    Returned => \A k \in 1..Len(Rows) :
        LET m == Source(Rows[k])
        IN  (FirstColon(m) = 0 /\ FirstDash(m) = 0) =>
              /\ Rows[k].user = group_notification
              /\ Trimmed(m, Rows[k].message)

\* a service message whose line break was trimmed away
C15_Witness ==
    /\ Returned
    /\ \E k \in 1..Len(Rows) :
          /\ Rows[k].user = group_notification
          /\ FirstColon(Source(Rows[k])) = 0
          /\ FirstDash(Source(Rows[k])) = 0
          /\ Rows[k].message # Source(Rows[k])

TextPhoneAlice ==
    <<"+", "1", " ", "5", "5", "5", " ", "1", "2", "3", "4", " ", "A", "l",
      "i", "c", "e", ":", " ", "h", "i">>

StartsWith(m, t) == Len(m) >= Len(t) /\ SubSeq(m, 1, Len(t)) = t

\* C16: the record of a message that reads "+1 555 1234 Alice: hi" has the
\* sender "Alice".
C16_PhonePrefix ==
    Returned => \A k \in 1..Len(Rows) :
        StartsWith(Source(Rows[k]), TextPhoneAlice) => Rows[k].user = TextAlice

\* the label of hour h is PeriodLabels[h + 1]
PeriodLabels ==
    << "12AM-1AM", "1AM-2AM", "2AM-3AM", "3AM-4AM", "4AM-5AM", "5AM-6AM",
       "6AM-7AM", "7AM-8AM", "8AM-9AM", "9AM-10AM", "10AM-11AM", "11AM-12PM",
       "12PM-1PM", "1PM-2PM", "2PM-3PM", "3PM-4PM", "4PM-5PM", "5PM-6PM",
       "6PM-7PM", "7PM-8PM", "8PM-9PM", "9PM-10PM", "10PM-11PM", "11PM-12AM" >>

\* C17: the period of every record is the label of its hour: 12AM-1AM for
\* 0, hAM-(h+1)AM for 1 to 10, 11AM-12PM for 11, 12PM-1PM for 12,
\* (h-12)PM-(h-11)PM for 13 to 22, 11PM-12AM for 23.
C17_PeriodTable ==
    Returned => \A k \in 1..Len(Rows) :
        /\ Rows[k].hour \in 0..23
        /\ Rows[k].period = PeriodLabels[Rows[k].hour + 1]

\* a dataset with a record in each of the 24 hours
C17_Witness ==
    /\ Returned
    /\ {Rows[k].hour : k \in 1..Len(Rows)} = 0..23

\* C18: every invocation ends, and ends in a dataset or in None; None is
\* returned only after an error report of this invocation; until the end
\* the caller has nothing; after the end no stage runs (the only step is a
\* new invocation, which starts at the detection).
C18_TwoOutcomes ==
    /\ [][ /\ pc # "done" => result = Pending
           /\ pc' = "done" =>
                \/ result'.kind = "DataFrame"
                \/ /\ result' = None
                   /\ \E k \in 1..Len(diag') : diag'[k].level = "error"
           /\ pc = "done" => pc' = "detect" /\ result' = Pending /\ diag' = <<>>
         ]_vars
    /\ (pc = "detect") ~> (pc = "done")

\* a failure in the middle of the pipeline, at the date parsing
C18_Witness ==
    /\ pc = "done"
    /\ result = None
    /\ diag # <<>>
    /\ diag[Len(diag)] = ErrDates

\* C19: no exception leaves preprocess: the result is a dataset or None,
\* and an invocation on an argument that is no text, whose first statement
\* raises, ends in None after the error reports of the except clause.
C19_NoException ==
    /\ result.kind \in {"pending", "DataFrame", "None"}
    /\ (pc = "done" /\ data \in NonText) =>
          /\ result = None
          /\ diag = <<ErrProcessing, ErrDetailed>>
    /\ (pc = "done" /\ \E k \in 1..Len(diag) : diag[k] \in {ErrProcessing, ErrFlexible}) =>
          result = None

\* an invocation on None or on bytes has returned
C19_Witness ==
    /\ pc = "done"
    /\ data \in NonText
    /\ result = None
    /\ Errors # {}

\* C20: an invocation returns what every earlier invocation on the same
\* text returned, whether that was the first invocation or followed one on
\* another text: the same dataset (same records, same order) or None.
C20_Deterministic ==
    pc = "done" =>
        \A k \in 1..Len(earlier) :
            earlier[k].data = data => earlier[k].result = result

\* the third invocation, the second on this text, returned a dataset that
\* rests on the flexible interpreter
C20_Witness ==
    /\ pc = "done"
    /\ Len(earlier) = 2
    /\ earlier[1].data # data
    /\ earlier[2].data = data
    /\ Returned
    /\ Asked(dates) # {}

\* the candidate lines of the catch-all pattern in the transcript
Candidates == ReFindall(generic_pattern, data)

\* C24: after the generic fallback extraction every candidate line of the
\* catch-all pattern has given one (timestamp, body) pair, in order: the
\* line cut at its first " - ", the timestamp keeping the " - ".
C24_FallbackKeepsAll ==
    (pc = "frame" /\ ~ReSearch(detected_pattern, data)) =>
        /\ Len(dates) = Len(Candidates)
        /\ Len(messages) = Len(Candidates)
        /\ \A k \in 1..Len(Candidates) :
              /\ dates[k] \o messages[k] = Candidates[k]
              /\ Find(dates[k], DashSep, 1) = Len(dates[k]) - 2

\* C25: a returned dataset comes without any error report of the
\* invocation.
C25_ErrorsOnlyOnFailure == Returned => Errors = {}

\* C26: an invocation that has emitted the success notice returns a
\* dataset.
C26_SuccessMeansDataset ==
    (pc = "done" /\ \E k \in 1..Len(diag) : diag[k] = SuccessUploaded) =>
        Returned

\* C27: an entry whose pattern matches the sample in hand does not have
\* the pattern of an earlier entry (the detector commits to the first
\* entry whose pattern matches, so an entry with the pattern of an earlier
\* one is selected on no sample).
C27_NoEntryShadowed ==
    data \notin NonText =>
        \A g \in 1..Len(date_patterns) :
            ReSearch(date_patterns[g].pattern, sample_data(data)) =>
                \A h \in 1..(g - 1) :
                    date_patterns[h].pattern # date_patterns[g].pattern

\* C28: on the primary path the fragments and bodies, taken in turn, make
\* up the transcript from the start of its first match to its end, and
\* there are as many bodies (and fragments) as non-overlapping matches of
\* the detected pattern in the transcript.
C28_NothingLost ==
    (pc = "frame" /\ Errors = {}) =>
        /\ Interleave(dates, messages)
              = SubSeq(data, SearchFrom(detected_pattern, data, 1)[1], Len(data))
        /\ Len(messages) = Len(FindIter(detected_pattern, data, 1))
        /\ Len(dates) = Len(messages)

\* three messages extracted from a transcript that begins with other text
C28_Witness ==
    /\ pc = "frame"
    /\ Errors = {}
    /\ Len(messages) = 3
    /\ SearchFrom(detected_pattern, data, 1)[1] > 1

\* C21: of two invocations in progress at once on different texts, each
\* returns what the invocation that processed its text alone returned.
C21_Isolated ==
    (other # NoOther /\ pc = "done") =>
        /\ other.data # data
        /\ \E k \in 1..Len(earlier) : earlier[k].data = data
        /\ \A k \in 1..Len(earlier) :
              earlier[k].data = data => earlier[k].result = result

\* both invocations have returned, one a dataset that rests on the
\* flexible interpreter and one a dataset the generic fallback recovered
C21_Witness ==
    /\ other # NoOther
    /\ pc = "done"
    /\ other.pc = "done"
    /\ Returned
    /\ Asked(dates) # {}
    /\ other.result.kind = "DataFrame"
    /\ \E k \in 1..Len(other.diag) : other.diag[k] = ErrNoMessages

\* C22: once the script is past a preprocess that returned no dataset, it
\* has shown the error and stopped, the user selector was not built and no
\* analysis routine was called.
C22_FailureStops ==
    (app.pos \notin {"none", "preprocess"} /\ result.kind # "DataFrame") =>
        /\ app.pos = "stopped"
        /\ app.shown = <<ErrApp>>
        /\ ~app.built
        /\ app.user_list = {}
        /\ app.called = {}

\* the script has stopped on a transcript of a single message, after the
\* error of preprocess and its own
C22_Witness ==
    /\ app.pos = "stopped"
    /\ result = None
    /\ data = LineAlice
    /\ diag[Len(diag)] = ErrTooFew
    /\ app.shown = <<ErrApp>>

\* C23: when an analysis routine has returned, the frame the script holds
\* is the dataset preprocess returned: same columns, same rows, same values.
C23_DatasetUntouched ==
    (app.pos = "finished" /\ Returned) => app.df = result

\* C29: the media count of fetch_stats is the number of records of the
\* selected user whose message is the media placeholder, with or without
\* the line break that ended its line.
C29_MediaCounted ==
    "fetch_stats" \in app.called =>
        app.stats.num_of_media =
            Len(SelectSeq(ByUser(app.selected_user, result.rows),
                          LAMBDA r : StrStrip(r.message) = StrStrip(MediaOmitted)))

\* the value get_sentiment_score computes without its cache, with the
\* library's score of the cleaned text
SentimentOf(text) ==
    IF text = <<>> \/ text = MediaOmitted \/ clean_text(text) = <<>> THEN {0}
    ELSE {a.score : a \in Scored(clean_text(text))}

\* the value calculate_topic_scores computes without any cache
TopicOf(text, topic_words) ==
    IF text = <<>> THEN 0
    ELSE TopicScore(preprocess_text(text, cache.stop_words), topic_words)

\* C30: each call of get_sentiment_score and calculate_topic_scores returns
\* the value the uncached computation gives for its arguments, and so does
\* every entry the caches hold.
C30_Transparent ==
    cache.pos = "serving" =>
        /\ cache.last.fn = "get_sentiment_score" =>
               SentimentOf(cache.last.text) = {cache.last.value}
        /\ cache.last.fn = "calculate_topic_scores" =>
               cache.last.value = TopicOf(cache.last.text, cache.last.topic_words)
        /\ \A k \in 1..Len(cache.scores) :
               SentimentOf(cache.scores[k].key) = {cache.scores[k].value}
        /\ \A k \in 1..Len(cache.topics) :
               cache.topics[k].value =
                   TopicOf(cache.topics[k].key[1], cache.topics[k].key[2])

\* a text whose entry was evicted is scored again, with a score that is
\* not zero, while the caches are full
C30_Witness ==
    /\ cache.pos = "serving"
    /\ cache.last.again
    /\ ~cache.last.hit
    /\ cache.last.value # 0
    /\ Len(cache.scores) = MaxScores
    /\ Len(cache.topics) = MaxTexts

====
